---- MODULE Spec2Model ----
(***************************************************************************)
(* Model of the Open-Meteo weather dashboard (src/week10-2.py).            *)
(*                                                                         *)
(* The script is re-executed top to bottom on every user interaction.  A   *)
(* re-execution is cut into steps only where an outside party answers: the *)
(* geocoding service, the user's radio choice, the forecast service.  The  *)
(* two memoized functions keep their caches for the life of the process.   *)
(***************************************************************************)
EXTENDS Integers, Sequences, FiniteSets, TLC

VARIABLES
    q, max_results, days, hourly_options, daily_options, \* sidebar widgets
    search_btn,                                          \* st.button result
    pc,                        \* position of the script run
    now,                       \* wall clock, seconds
    clicks,                    \* trigger actions so far
    edits,                     \* widget changes so far
    geocode_cache,             \* entries of @st.cache_data geocode
    forecast_cache,            \* entries of @st.cache_data fetch_forecast
    results, sel, idx, lat, lon, tz, data,   \* locals of the current run
    display, charts, table,    \* what the current run has put on the page
    error,                     \* uncaught exception of the current run
    invoked,                   \* memoized functions called in the current run
    net                        \* outbound HTTP requests of the current run

vars == << q, max_results, days, hourly_options, daily_options, search_btn,
           pc, now, clicks, edits, edits, geocode_cache, forecast_cache,
           results, sel, idx, lat, lon, tz, data,
           display, charts, table, error, invoked, net >>

widgets == << q, max_results, days, hourly_options, daily_options >>
caches  == << geocode_cache, forecast_cache >>

-----------------------------------------------------------------------------
(* Bounds of the model *)

MaxClicks == 2          \* trigger actions explored
MaxTicks == 2           \* clock steps explored
MaxEdits == 1           \* widget changes explored

(* Program constants *)
GEOCODE_TTL == 60 * 60
FORECAST_TTL == 60 * 10
MinLimit == 1
DefaultLimit == 5
MinDays == 1
DefaultDays == 7

TimeStep == FORECAST_TTL \div 2     \* seconds that pass in one clock step

None == "<None>"
EmptyDict == [k \in {} |-> None]

GEOCODE_URL == "https://geocoding-api.open-meteo.com/v1/search"
FORECAST_URL == "https://api.open-meteo.com/v1/forecast"

-----------------------------------------------------------------------------
(* Python helpers *)

IsSpace(c) == c \in {" ", "\t", "\n"}

RECURSIVE lstrip(_)
lstrip(s) == IF s # << >> /\ IsSpace(Head(s)) THEN lstrip(Tail(s)) ELSE s

RECURSIVE rstrip(_)
rstrip(s) ==
    IF s # << >> /\ IsSpace(s[Len(s)]) THEN rstrip(SubSeq(s, 1, Len(s) - 1)) ELSE s

\* str.strip(): the string without its leading and trailing whitespace
strip(s) == rstrip(lstrip(s))

\* dict.get(key, default)
Get(d, key, default) == IF key \in DOMAIN d THEN d[key] ELSE default

\* truth value of a str / None operand of `or`
FalsyStr(x) == x = None \/ x = ""

\* x or y
Or(x, y) == IF FalsyStr(x) THEN y ELSE x

Range(s) == { s[i] : i \in DOMAIN s }

\* sep.join(xs), kept as the sequence of its pieces
RECURSIVE join(_, _)
join(sep, xs) ==
    IF xs = << >> THEN << >>
    ELSE IF Len(xs) = 1 THEN << xs[1] >>
    ELSE << xs[1], sep >> \o join(sep, Tail(xs))

\* [x for x in xs if x in S]
RECURSIVE Filter(_, _)
Filter(xs, S) ==
    IF xs = << >> THEN << >>
    ELSE (IF Head(xs) \in S THEN << Head(xs) >> ELSE << >>) \o Filter(Tail(xs), S)

-----------------------------------------------------------------------------
(* What the user can enter *)

Queries == { << >>, << " " >>, << "S" >> }
Limits == { MinLimit, DefaultLimit }
DayCounts == { MinDays, DefaultDays }
DefaultHourly == << "temperature_2m", "precipitation" >>
DefaultDaily == << "temperature_2m_max", "temperature_2m_min", "precipitation_sum" >>
HourlySelections == { << >>, DefaultHourly }
DailySelections == { << >>, DefaultDaily }

-----------------------------------------------------------------------------
(* What the geocoding service can answer: JSON bodies *)

Place(name, country, admin1, latitude, longitude, timezone) ==
    [ name |-> name, country |-> country, admin1 |-> admin1,
      latitude |-> latitude, longitude |-> longitude, timezone |-> timezone ]

SeoulA == Place("Seoul", "KR", "Seoul", 37, 127, "Asia/Seoul")
SeoulB == Place("Seoul", "KR", "Seoul", 35, 129, None)
Springfield == Place("Springfield", "US", None, 39, -89, "")

GeocodeBodies ==
    { EmptyDict,                                        \* no "results" key
      "results" :> << >>,
      "results" :> << Springfield, SeoulB, SeoulA >> }

(* What the forecast service can answer: JSON bodies *)

Current(t) == ("temperature" :> t) @@ ("windspeed" :> 3) @@
              ("winddirection" :> 90) @@ ("time" :> "t1")

HourlyFull == ("time" :> << "t1", "t2" >>) @@ ("temperature_2m" :> << 20, 21 >>)
              @@ ("precipitation" :> << 0, 1 >>) @@ ("weathercode" :> << 1, 2 >>)
HourlyPartial == ("time" :> << "t1", "t2" >>) @@ ("temperature_2m" :> << 20, 21 >>)
HourlyNoTime == ("temperature_2m" :> << 20, 21 >>)
DailyFull == ("time" :> << "d1" >>) @@ ("temperature_2m_max" :> << 25 >>)
             @@ ("temperature_2m_min" :> << 15 >>) @@ ("precipitation_sum" :> << 0 >>)
DailyPartial == ("time" :> << "d1" >>) @@ ("temperature_2m_max" :> << 25 >>)

ForecastBodies ==
    { ("current_weather" :> Current(20)) @@ ("hourly" :> HourlyFull) @@ ("daily" :> DailyFull),
      ("current_weather" :> EmptyDict) @@ ("hourly" :> HourlyPartial) @@ ("daily" :> DailyPartial),
      ("daily" :> DailyFull),
      ("current_weather" :> Current(20)) @@ ("hourly" :> HourlyNoTime) @@ ("daily" :> DailyFull) }

-----------------------------------------------------------------------------
(* @st.cache_data(ttl=...): entries [key, value, at]; an entry answers a call *)
(* while it is younger than ttl, and a call that raises stores nothing        *)

Fresh(cache, key, ttl, t) == { e \in cache : e.key = key /\ t - e.at < ttl }

Store(cache, key, value, t) ==
    { e \in cache : e.key # key } \cup { [ key |-> key, value |-> value, at |-> t ] }

\* variant: the failure is memoized like a result
StoreFailure(cache, key, t) == Store(cache, key, EmptyDict, t)

\* the cache after a call whose body raised
StoreNothing(cache, key, t) == cache

GeocodeKey(query, limit) == << query, limit >>

\* variant: the day count is left out of the key
ForecastKey_NoDays(lat_, lon_, timezone_str, hourly_vars, daily_vars, days_) ==
    << lat_, lon_, timezone_str, hourly_vars, daily_vars >>

ForecastKey(lat_, lon_, timezone_str, hourly_vars, daily_vars, days_) ==
    << lat_, lon_, timezone_str, hourly_vars, daily_vars, days_ >>

-----------------------------------------------------------------------------
(* geocode(query, limit) *)

GEOCODE_TIMEOUT == 10
FORECAST_TIMEOUT == 15

GeocodeRequest(query, limit) ==
    [ url |-> GEOCODE_URL,
      params |-> ("name" :> query) @@ ("count" :> limit),
      timeout |-> GEOCODE_TIMEOUT ]

\* r.json().get("results", [])
GeocodeReturn(body) == Get(body, "results", << >>)

(* fetch_forecast(lat, lon, timezone_str, hourly_vars, daily_vars, days) *)

\* a parameter value: << v >>, or << >> for Python's None
Some(v) == << v >>
Nothing == << >>

ForecastParamsRaw(lat_, lon_, timezone_str, hourly_vars, daily_vars, days_) ==
    ("latitude" :> Some(lat_)) @@ ("longitude" :> Some(lon_)) @@
    ("hourly" :> IF hourly_vars # << >> THEN Some(join(",", hourly_vars)) ELSE Nothing) @@
    ("daily" :> IF daily_vars # << >> THEN Some(join(",", daily_vars)) ELSE Nothing) @@
    ("current_weather" :> Some("true")) @@
    ("forecast_days" :> Some(days_)) @@
    ("timezone" :> IF timezone_str = None THEN Nothing ELSE Some(timezone_str))

\* variant: a None value is sent as an empty string
DropNone_Keep(params) ==
    [ k \in DOMAIN params |-> IF params[k] = Nothing THEN "" ELSE params[k][1] ]

\* {k: v for k, v in params.items() if v is not None}
DropNone(params) ==
    [ k \in { k \in DOMAIN params : params[k] # Nothing } |-> params[k][1] ]

ForecastParams(lat_, lon_, timezone_str, hourly_vars, daily_vars, days_) ==
    DropNone(ForecastParamsRaw(lat_, lon_, timezone_str, hourly_vars, daily_vars, days_))

ForecastRequest(lat_, lon_, timezone_str, hourly_vars, daily_vars, days_) ==
    [ url |-> FORECAST_URL,
      params |-> ForecastParams(lat_, lon_, timezone_str, hourly_vars, daily_vars, days_),
      timeout |-> FORECAST_TIMEOUT ]

-----------------------------------------------------------------------------
(* Selection: lines 64-74 *)

\* f"{r.get('name')}, {r.get('country')} ({r.get('admin1') or ''})", by its pieces
DisplayName(r) == << r.name, ", ", r.country, " (", Or(r.admin1, ""), ")" >>

Rows(res) ==
    [ i \in DOMAIN res |->
        [ name |-> DisplayName(res[i]), lat |-> res[i].latitude,
          lon |-> res[i].longitude, timezone |-> res[i].timezone ] ]

Names(res) == [ i \in DOMAIN res |-> Rows(res)[i].name ]

\* variant: the highest position holding x
index_last(xs, x) ==
    CHOOSE i \in 0 .. Len(xs) - 1 :
        xs[i + 1] = x /\ \A j \in i + 1 .. Len(xs) - 1 : xs[j + 1] # x

\* list.index(x), 0-based: the lowest position holding x
index(xs, x) ==
    CHOOSE i \in 0 .. Len(xs) - 1 :
        xs[i + 1] = x /\ \A j \in 0 .. i - 1 : xs[j + 1] # x

\* float(x) of a JSON number keeps its value
float(x) == x

\* df.iloc[idx]
SelRow(res, i) == Rows(res)[i + 1]

ResolveTz(timezone) == Or(timezone, "UTC")

-----------------------------------------------------------------------------
(* Rendering: lines 82-124 *)

Truthy(d) == DOMAIN d # {}

\* pd.DataFrame(dict of arrays) raises ValueError unless all arrays have one length
Ragged(d) == \E a, b \in DOMAIN d : Len(d[a]) # Len(d[b])

Page(shown, chartSeq, tableCols, err) ==
    [ display |-> shown, charts |-> chartSeq, table |-> tableCols, error |-> err ]

\* lines 82-89
RenderCurrent(doc) ==
    IF Truthy(Get(doc, "current_weather", EmptyDict)) THEN { "metric" } ELSE { "no_current" }

\* lines 92-107
RenderHourly(doc, hourly_vars) ==
    LET hourly == Get(doc, "hourly", EmptyDict) IN
    IF Truthy(hourly) /\ hourly_vars # << >>
    THEN IF Ragged(hourly) THEN Page({}, << >>, {}, "ValueError")
         ELSE IF "time" \notin DOMAIN hourly THEN Page({}, << >>, {}, "KeyError")
         ELSE Page({ "hourly_header" }, Filter(hourly_vars, DOMAIN hourly), {}, None)
    ELSE Page({}, << >>, {}, None)

\* lines 110-115
RenderDaily(doc, daily_vars) ==
    LET daily == Get(doc, "daily", EmptyDict) IN
    IF Truthy(daily) /\ daily_vars # << >>
    THEN IF Ragged(daily) THEN Page({ "daily_header" }, << >>, {}, "ValueError")
         ELSE IF "time" \notin DOMAIN daily THEN Page({ "daily_header" }, << >>, {}, "KeyError")
         ELSE Page({ "daily_header", "daily_table" }, << >>,
                   { "time" } \cup (DOMAIN daily \cap Range(daily_vars)), None)
    ELSE Page({}, << >>, {}, None)

\* lines 118-124
RenderMap == { "map", "json" }

\* the statements run in order; the first exception ends the run
RenderPage(doc, hourly_vars, daily_vars) ==
    LET c == RenderCurrent(doc)
        h == RenderHourly(doc, hourly_vars)
        d == RenderDaily(doc, daily_vars)
    IN  IF h.error # None THEN Page(c \cup h.display, h.charts, {}, h.error)
        ELSE IF d.error # None
             THEN Page(c \cup h.display \cup d.display, h.charts, {}, d.error)
        ELSE Page(c \cup h.display \cup d.display \cup RenderMap, h.charts, d.table, None)

-----------------------------------------------------------------------------
(* The script *)

Init ==
    /\ q = << "S" >> /\ max_results = DefaultLimit /\ days = DefaultDays
    /\ hourly_options = DefaultHourly
    /\ daily_options = DefaultDaily
    /\ search_btn = FALSE
    /\ pc = "idle" /\ now = 0 /\ clicks = 0 /\ edits = 0
    /\ geocode_cache = {} /\ forecast_cache = {}
    /\ results = << >> /\ sel = << >> /\ idx = 0 /\ lat = 0 /\ lon = 0
    /\ tz = None /\ data = EmptyDict
    /\ display = { "info" } /\ charts = << >> /\ table = {}
    /\ error = None /\ invoked = {} /\ net = << >>

\* variant: the query is tested without strip()
Triggered_NoStrip(btn, query) == btn /\ query # << >>

\* line 57: if search_btn and q.strip()
Triggered(btn, query) == btn /\ strip(query) # << >>

\* a re-execution starts: nothing of the previous run survives but the widgets
\* and the caches; line 57 picks the branch (line 126 is the else branch)
Rerun(btn) ==
    /\ pc = "idle"
    /\ search_btn' = btn
    /\ results' = << >> /\ sel' = << >> /\ idx' = 0 /\ lat' = 0 /\ lon' = 0
    /\ tz' = None /\ data' = EmptyDict
    /\ charts' = << >> /\ table' = {}
    /\ error' = None /\ invoked' = {} /\ net' = << >>
    /\ IF Triggered(btn, q')
       THEN pc' = "geocode" /\ display' = {}
       ELSE pc' = "idle" /\ display' = { "info" }
    /\ UNCHANGED << now, caches >>

\* a widget gets a new value, which re-executes the script
Edit ==
    /\ edits < MaxEdits
    /\ edits' = edits + 1
    /\ UNCHANGED clicks
    /\ Rerun(FALSE)

\* line 44
SetQuery ==
    /\ \E v \in Queries \ { q } : q' = v
    /\ UNCHANGED << max_results, days, hourly_options, daily_options >>
    /\ Edit

\* line 45
SetMaxResults ==
    /\ \E v \in Limits \ { max_results } : max_results' = v
    /\ UNCHANGED << q, days, hourly_options, daily_options >>
    /\ Edit

\* line 46
SetDays ==
    /\ \E v \in DayCounts \ { days } : days' = v
    /\ UNCHANGED << q, max_results, hourly_options, daily_options >>
    /\ Edit

\* lines 47-49
SetHourly ==
    /\ \E v \in HourlySelections \ { hourly_options } : hourly_options' = v
    /\ UNCHANGED << q, max_results, days, daily_options >>
    /\ Edit

\* lines 50-52
SetDaily ==
    /\ \E v \in DailySelections \ { daily_options } : daily_options' = v
    /\ UNCHANGED << q, max_results, days, hourly_options >>
    /\ Edit

\* line 53: the button is pressed
ClickSearch ==
    /\ clicks < MaxClicks
    /\ clicks' = clicks + 1
    /\ UNCHANGED << widgets, edits >>
    /\ Rerun(TRUE)

\* the clock
Tick ==
    /\ pc = "idle"
    /\ now < MaxTicks * TimeStep
    /\ now' = now + TimeStep
    /\ UNCHANGED << widgets, search_btn, pc, clicks, edits, caches, results, sel, idx,
                    lat, lon, tz, data, display, charts, table, error, invoked, net >>

\* variant: the exception is swallowed and nothing is shown
Raise_Silent(err) ==
    /\ error' = err
    /\ display' = display
    /\ pc' = "idle"

\* an exception leaves the script: the run ends and the page shows the exception
Raise(err) ==
    /\ error' = err
    /\ display' = display \cup { "exception" }
    /\ pc' = "idle"

\* variant: the empty list is not tested
AfterGeocode_NoEmptyBranch(res) == pc' = "select" /\ display' = display

\* lines 60-62
AfterGeocode(res) ==
    IF res = << >>
    THEN pc' = "idle" /\ display' = display \cup { "warning" }
    ELSE pc' = "select" /\ display' = display

\* line 59, answered from the cache
GeocodeCached ==
    /\ pc = "geocode"
    /\ \E e \in Fresh(geocode_cache, GeocodeKey(q, max_results), GEOCODE_TTL, now) :
          /\ results' = e.value
          /\ AfterGeocode(e.value)
    /\ invoked' = invoked \cup { "geocode" }
    /\ UNCHANGED << widgets, search_btn, now, clicks, edits, caches, sel, idx, lat, lon, tz,
                    data, charts, table, error, net >>

\* line 59, lines 19-22 run and the service answers
GeocodeFetched ==
    /\ pc = "geocode"
    /\ Fresh(geocode_cache, GeocodeKey(q, max_results), GEOCODE_TTL, now) = {}
    /\ \E body \in GeocodeBodies :
          /\ results' = GeocodeReturn(body)
          /\ geocode_cache' =
                Store(geocode_cache, GeocodeKey(q, max_results), GeocodeReturn(body), now)
          /\ AfterGeocode(GeocodeReturn(body))
    /\ invoked' = invoked \cup { "geocode" }
    /\ net' = Append(net, GeocodeRequest(q, max_results))
    /\ UNCHANGED << widgets, search_btn, now, clicks, edits, forecast_cache, sel, idx, lat,
                    lon, tz, data, charts, table, error >>

\* line 59, lines 20-21 raise (timeout, transport failure, non-2xx status)
GeocodeFailed ==
    /\ pc = "geocode"
    /\ Fresh(geocode_cache, GeocodeKey(q, max_results), GEOCODE_TTL, now) = {}
    /\ geocode_cache' = StoreNothing(geocode_cache, GeocodeKey(q, max_results), now)
    /\ invoked' = invoked \cup { "geocode" }
    /\ net' = Append(net, GeocodeRequest(q, max_results))
    /\ Raise("NetworkError")
    /\ UNCHANGED << widgets, search_btn, now, clicks, edits, forecast_cache, results, sel, idx,
                    lat, lon, tz, data, charts, table >>

\* lines 64-75: st.radio returns one of the names it was given
Select ==
    /\ pc = "select"
    /\ \E choice \in Range(Names(results)) :
          /\ sel' = choice
          /\ idx' = index(Names(results), choice)
    /\ lat' = float(SelRow(results, idx').lat)
    /\ lon' = float(SelRow(results, idx').lon)
    /\ tz' = ResolveTz(SelRow(results, idx').timezone)
    /\ display' = display \cup { "results_header", "radio", "selection" }
    /\ pc' = "fetch"
    /\ UNCHANGED << widgets, search_btn, now, clicks, edits, caches, results, data, charts,
                    table, error, invoked, net >>

\* line 79, answered from the cache
ForecastCached ==
    /\ pc = "fetch"
    /\ \E e \in Fresh(forecast_cache,
                      ForecastKey(lat, lon, tz, hourly_options, daily_options, days),
                      FORECAST_TTL, now) :
          data' = e.value
    /\ invoked' = invoked \cup { "fetch_forecast" }
    /\ pc' = "render"
    /\ UNCHANGED << widgets, search_btn, now, clicks, edits, caches, results, sel, idx, lat,
                    lon, tz, display, charts, table, error, net >>

\* line 79, lines 26-39 run and the service answers
ForecastFetched ==
    /\ pc = "fetch"
    /\ Fresh(forecast_cache,
             ForecastKey(lat, lon, tz, hourly_options, daily_options, days),
             FORECAST_TTL, now) = {}
    /\ \E body \in ForecastBodies :
          /\ data' = body
          /\ forecast_cache' =
                Store(forecast_cache,
                      ForecastKey(lat, lon, tz, hourly_options, daily_options, days),
                      body, now)
    /\ invoked' = invoked \cup { "fetch_forecast" }
    /\ net' = Append(net, ForecastRequest(lat, lon, tz, hourly_options, daily_options, days))
    /\ pc' = "render"
    /\ UNCHANGED << widgets, search_btn, now, clicks, edits, geocode_cache, results, sel, idx,
                    lat, lon, tz, display, charts, table, error >>

\* line 79, lines 37-38 raise
ForecastFailed ==
    /\ pc = "fetch"
    /\ Fresh(forecast_cache,
             ForecastKey(lat, lon, tz, hourly_options, daily_options, days),
             FORECAST_TTL, now) = {}
    /\ forecast_cache' =
          StoreNothing(forecast_cache,
                       ForecastKey(lat, lon, tz, hourly_options, daily_options, days), now)
    /\ invoked' = invoked \cup { "fetch_forecast" }
    /\ net' = Append(net, ForecastRequest(lat, lon, tz, hourly_options, daily_options, days))
    /\ Raise("NetworkError")
    /\ UNCHANGED << widgets, search_btn, now, clicks, edits, geocode_cache, results, sel, idx,
                    lat, lon, tz, data, charts, table >>

\* lines 82-124
Render ==
    /\ pc = "render"
    /\ LET page == RenderPage(data, hourly_options, daily_options) IN
          /\ charts' = page.charts
          /\ table' = page.table
          /\ error' = page.error
          /\ display' = display \cup page.display \cup
                        (IF page.error # None THEN { "exception" } ELSE {})
    /\ pc' = "idle"
    /\ UNCHANGED << widgets, search_btn, now, clicks, edits, caches, results, sel, idx, lat,
                    lon, tz, data, invoked, net >>

Next ==
    \/ SetQuery \/ SetMaxResults \/ SetDays \/ SetHourly \/ SetDaily
    \/ ClickSearch \/ Tick
    \/ GeocodeCached \/ GeocodeFetched \/ GeocodeFailed
    \/ Select
    \/ ForecastCached \/ ForecastFetched \/ ForecastFailed
    \/ Render

Spec == Init /\ [][Next]_vars

-----------------------------------------------------------------------------
(* Vocabulary of the properties *)

ForecastRequests == { i \in DOMAIN net : net[i].url = FORECAST_URL }
GeocodeRequests == { i \in DOMAIN net : net[i].url = GEOCODE_URL }

\* the run's geocode call raised / returned
GeocodeRaised ==
    "geocode" \in invoked /\ "fetch_forecast" \notin invoked /\ error = "NetworkError"
GeocodeReturned == "geocode" \in invoked /\ ~GeocodeRaised

\* the run's fetch call returned a document and the renderer has run
Rendered ==
    pc = "idle" /\ "fetch_forecast" \in invoked /\ error # "NetworkError"

\* the query is empty or whitespace only
Blank(query) == \A i \in DOMAIN query : query[i] = " "

\* pipeline states of the specification
AwaitingQuery == pc = "idle" /\ display = { "info" }
NoResults == pc = "idle" /\ "warning" \in display

\* the cache entries that answer the current run's calls, by the documented
\* key and window
ForecastEntries ==
    { e \in forecast_cache :
        /\ e.key = << lat, lon, tz, hourly_options, daily_options, days >>
        /\ now - e.at < 10 * 60 }
GeocodeEntries ==
    { e \in geocode_cache : e.key = << q, max_results >> /\ now - e.at < 60 * 60 }

-----------------------------------------------------------------------------
\* C1: a run whose geocode call returns an empty candidate list ends in
\* NoResults (the warning is shown) and never calls fetch_forecast nor sends a
\* forecast request.
C1_EmptyResultsEndInNoResults ==
    (GeocodeReturned /\ results = << >>) =>
        /\ NoResults
        /\ "fetch_forecast" \notin invoked
        /\ ForecastRequests = {}
        /\ display \cap { "map", "selection", "exception" } = {}

C1_Witness ==
    GeocodeReturned /\ results = << >> /\ GeocodeRequests # {} /\ "warning" \in display

\* C2: geocode is called in a run only if the button fired in that run and the
\* query is not blank; with a blank query or without the button no function is
\* called, no request is sent and the page is in AwaitingQuery.
C2_SearchOnlyOnTriggerWithQuery ==
    /\ ("geocode" \in invoked \/ net # << >> \/ pc # "idle") =>
            (search_btn /\ ~Blank(q))
    /\ (~search_btn \/ Blank(q)) =>
            (AwaitingQuery /\ invoked = {} /\ net = << >>)

C2_Witness ==
    search_btn /\ q = << " " >> /\ clicks > 0 /\ AwaitingQuery /\ net = << >>

\* C3: a fetch_forecast call whose full parameter tuple has an entry younger
\* than ten minutes returns that entry's document without a request; any other
\* call sends one request, and a returned document is the one stored under
\* the tuple.
C3_ForecastMemoized ==
    [][ (pc = "fetch" /\ pc' # "fetch") =>
          /\ \A e \in ForecastEntries : pc' = "render" /\ data' = e.value /\ net' = net
          /\ ForecastEntries = {} =>
                /\ Len(net') = Len(net) + 1
                /\ net'[Len(net')].url = FORECAST_URL
                /\ pc' = "render" =>
                      \E e \in forecast_cache' :
                          /\ e.key = << lat, lon, tz, hourly_options, daily_options, days >>
                          /\ e.value = data' /\ e.at = now
          /\ Cardinality(ForecastEntries) <= 1 ]_vars

C3_Witness ==
    /\ pc = "render" /\ "fetch_forecast" \in invoked /\ ForecastRequests = {}
    /\ \E e \in ForecastEntries : e.at < now /\ e.value = data

\* C4: a geocode or forecast call that fails raises NetworkError and leaves
\* both caches as they were, with no entry answering that key; and a call
\* with no answering entry always sends a request.
C4_FailureNotCached ==
    [][ /\ (error = None /\ error' = "NetworkError") =>
              /\ geocode_cache' = geocode_cache /\ forecast_cache' = forecast_cache
              /\ Len(net') = Len(net) + 1
              /\ pc = "geocode" => GeocodeEntries = {}
              /\ pc = "fetch" => ForecastEntries = {}
        /\ (pc = "geocode" /\ pc' # "geocode" /\ GeocodeEntries = {}) =>
              (Len(net') = Len(net) + 1 /\ net'[Len(net')].url = GEOCODE_URL)
        /\ (pc = "fetch" /\ pc' # "fetch" /\ ForecastEntries = {}) =>
              (Len(net') = Len(net) + 1 /\ net'[Len(net')].url = FORECAST_URL) ]_vars

C4_Witness ==
    /\ error = "NetworkError" /\ "fetch_forecast" \in invoked
    /\ ForecastEntries = {} /\ ForecastRequests # {}

\* C5: a run that hits NetworkError ends with the exception on the page and
\* one request per service at most (no retry); the script is then idle, the
\* button can be pressed again, and pressing it starts a run from scratch.
C5_NetworkErrorLocalToRun ==
    /\ [](error = "NetworkError" =>
            /\ pc = "idle"
            /\ "exception" \in display
            /\ Cardinality(ForecastRequests) <= 1 /\ Cardinality(GeocodeRequests) <= 1
            /\ clicks < MaxClicks => ENABLED ClickSearch)
    /\ [][ (error = "NetworkError" /\ clicks' = clicks + 1) =>
              /\ error' = None /\ net' = << >> /\ invoked' = {}
              /\ results' = << >> /\ data' = EmptyDict
              /\ "exception" \notin display'
              /\ ~Blank(q) => pc' = "geocode" ]_vars

C5_Witness ==
    /\ error = "NetworkError" /\ pc = "idle" /\ "exception" \in display
    /\ clicks < MaxClicks /\ GeocodeRequests # {}

\* C6: the list geocode returns is never longer than the limit it was called
\* with.
C6_ResultsWithinLimit ==
    GeocodeReturned => Len(results) <= max_results

\* C7: every forecast request carries "hourly" exactly when the hourly
\* selection is not empty and "daily" exactly when the daily selection is not
\* empty, each the comma-joined selection and never an empty value, and always
\* carries current_weather=true, latitude, longitude, forecast_days, timezone.
C7_ForecastParams ==
    \A i \in ForecastRequests :
        LET p == net[i].params IN
        /\ ("hourly" \in DOMAIN p) <=> (hourly_options # << >>)
        /\ ("daily" \in DOMAIN p) <=> (daily_options # << >>)
        /\ "hourly" \in DOMAIN p =>
              (p["hourly"] # << >> /\
               (hourly_options = DefaultHourly =>
                  p["hourly"] = << "temperature_2m", ",", "precipitation" >>))
        /\ "daily" \in DOMAIN p =>
              (p["daily"] # << >> /\
               (daily_options = DefaultDaily =>
                  p["daily"] = << "temperature_2m_max", ",", "temperature_2m_min", ",",
                                 "precipitation_sum" >>))
        /\ { "current_weather", "latitude", "longitude", "forecast_days", "timezone" }
              \subseteq DOMAIN p
        /\ DOMAIN p \subseteq { "current_weather", "latitude", "longitude", "forecast_days",
                                "timezone", "hourly", "daily" }
        /\ p["current_weather"] = "true"
        /\ p["latitude"] = lat /\ p["longitude"] = lon
        /\ p["forecast_days"] = days /\ p["timezone"] = tz

C7_Witness ==
    \E i \in ForecastRequests :
        /\ hourly_options = << >> /\ daily_options # << >>
        /\ "hourly" \notin DOMAIN net[i].params /\ "daily" \in DOMAIN net[i].params

\* C8: the resolved selection is the lowest-index candidate whose display
\* name is the chosen one: its latitude, longitude and timezone, the timezone
\* being "UTC" when the candidate has none; a later candidate of the same
\* name is never resolved.
C8_FirstMatchResolved ==
    sel # << >> =>
        /\ idx \in 0 .. Len(results) - 1
        /\ DisplayName(results[idx + 1]) = sel
        /\ \A j \in 1 .. idx : DisplayName(results[j]) # sel
        /\ lat = results[idx + 1].latitude
        /\ lon = results[idx + 1].longitude
        /\ tz = IF results[idx + 1].timezone \in { None, "" }
                THEN "UTC" ELSE results[idx + 1].timezone

C8_Witness ==
    /\ sel # << >> /\ idx > 0 /\ tz = "UTC"
    /\ \E j \in idx + 2 .. Len(results) : DisplayName(results[j]) = sel

\* C9: after rendering, the charts are exactly the selected hourly variables
\* that the document's hourly block holds, one chart each, and no exception
\* was raised.
C9_ChartPerPresentVariable ==
    Rendered =>
        LET present == Range(hourly_options) \cap DOMAIN Get(data, "hourly", EmptyDict) IN
        /\ Range(charts) = present
        /\ Len(charts) = Cardinality(present)
        /\ error = None

\* C10: after a successful fetch the map is rendered, and so is the daily
\* table when the document has daily data and daily variables are selected,
\* whatever the current and hourly blocks hold.
C10_DailyAndMapAlwaysRendered ==
    Rendered =>
        /\ "map" \in display
        /\ (Truthy(Get(data, "daily", EmptyDict)) /\ daily_options # << >>) =>
              "daily_table" \in display

====
